---- MODULE Spec2Model ----
(***************************************************************************)
(* Model of the gesture recogniser of src/routes/+page.svelte.  The        *)
(* angle-based component (its first script, lines 1-135) is modelled in    *)
(* full, the position-based one (its second script, lines 166-249) by its  *)
(* functions.  Of the angle-based component: the per-frame classification  *)
(* (getFingerStates, identifyHandGesture, recognizeTwoHandGestures,        *)
(* recognizeGesture), the temporal smoother (updateGestureHistory,         *)
(* getMostFrequentGesture) and the frame loop (onFrame, detectHands).      *)
(*                                                                         *)
(* Arrays are 1-based here and 0-based in the source: landmark i of the    *)
(* source is element i+1 of a hand.                                        *)
(***************************************************************************)
EXTENDS Integers, Sequences, FiniteSets, TLC

VARIABLES
    model,            \* line 11: TRUE once handpose.load() has resolved
    camera,           \* line 43: TRUE once camera.start() was called
    detectedGesture,  \* line 12
    gestureHistory,   \* line 14
    isDetecting,      \* line 15
    inFlight,         \* the onFrame callbacks past line 33, each awaiting estimateHands (line 49)
                      \* or, detectHands fulfilled, its own continuation (line 34), with the
                      \* frame size it read at line 47
    rejected,         \* TRUE once an onFrame promise was rejected (an exception left detectHands)
    lastOp,           \* history variable: the step taken last
    prevHistory,      \* history variable: gestureHistory before the last step, when that step was
                      \* the rest of detectHands; empty otherwise
    window,           \* history variable: labels of the hand-bearing frames since the last reset, newest 5
    fn,               \* function-level checks: "idle" | "input" | "done"
    arg,              \* function-level checks: the call
    res               \* function-level checks: its outcome

vars == <<model, camera, detectedGesture, gestureHistory, isDetecting, inFlight,
          rejected, lastOp, prevHistory, window, fn, arg, res>>

progVars == <<model, camera, detectedGesture, gestureHistory, isDetecting, inFlight,
              rejected, lastOp, prevHistory, window>>

fnVars == <<fn, arg, res>>

-----------------------------------------------------------------------------
(* Program constants *)

GESTURE_HISTORY_LENGTH == 5

LANDMARKS == 21

(* Bounds of the model *)

\* most hands the pose model reports for one frame
MaxHands == 2

\* most onFrame callbacks the model lets be pending at once
MaxInFlight == 2

\* most frames of one run of the component
MaxRun == 7

\* most frames before the zero-hand frame of a run, and most after it
MaxPrefix == 2

\* most frames of a run whose frames may be dropped, refused or rejected
MaxMixed == 2

-----------------------------------------------------------------------------
(* Labels *)

OpenHand == "Open Hand"
ThumbsUp == "Thumbs Up (Yes)"
NoIndex == "No (Index Finger Shaking)"
Fist == "Fist (Sorry)"
Peace == "Peace Sign (Play)"
Unknown == "Unknown"
NoHand == "No hand detected"
AllDone == "All Done"
More == "More"
Help == "Help"
UnknownTwoHand == "Unknown Two-Hand Gesture"

SingleHandLabels == {OpenHand, ThumbsUp, NoIndex, Fist, Peace, Unknown}

Vocabulary == SingleHandLabels \cup {NoHand, AllDone, More, Help, UnknownTwoHand}

\* Array.prototype.sort() without a comparator orders strings by UTF-16 code
\* units; this is that order on the strings identifyHandGesture returns.
CodeUnitOrder == <<Fist, NoIndex, OpenHand, Peace, ThumbsUp, Unknown>>

Rank(s) == CHOOSE i \in 1..Len(CodeUnitOrder) : CodeUnitOrder[i] = s

-----------------------------------------------------------------------------
(* Numbers.  The source's numbers are IEEE 754 binary64 values and every    *)
(* operation of lines 108-116 rounds to nearest, ties to even.  A double is *)
(* kept as sign s, mantissa m (a natural of exactly 53 bits, or 0) and      *)
(* exponent e, standing for s * m * 2^e, or it is an infinity or NaN.       *)
(* Mantissas and their exact products exceed the 32-bit integers, so        *)
(* naturals are kept as limbs to the base 2^15, lowest limb first, without  *)
(* leading zero limbs.  Not modelled: the sign of zero (no operation of the *)
(* source tells -0 from 0) and gradual underflow (out of reach of pixel     *)
(* coordinates).                                                            *)
(*                                                                          *)
(* An operand or a const of the source is evaluated once and its value used *)
(* wherever it is named: The({e : v \in {x}}) is e at the value v of x.     *)

\* the element of a set of one element
The(S) == CHOOSE r \in S : TRUE

\* the array f with every element evaluated
Table(f) == f @@ <<>>

Limb == 2^15

LimbBits == 15

MantissaBits == 53

RECURSIVE BigOf(_)
\* the limbs of an integer n >= 0
BigOf(n) == IF n = 0 THEN <<>> ELSE <<n % Limb>> \o BigOf(n \div Limb)

RECURSIVE BigTrimmed(_)
BigTrimmed(a) ==
    IF a # <<>> /\ a[Len(a)] = 0 THEN BigTrimmed(SubSeq(a, 1, Len(a) - 1)) ELSE a

\* a without its leading zero limbs
BigTrim(a) == The({BigTrimmed(u) : u \in {a}})

BigLimb(a, i) == IF i <= Len(a) THEN a[i] ELSE 0

RECURSIVE BigCmpFrom(_, _, _)
BigCmpFrom(a, b, i) ==
    IF i = 0 THEN 0
    ELSE IF a[i] > b[i] THEN 1
    ELSE IF a[i] < b[i] THEN -1
    ELSE BigCmpFrom(a, b, i - 1)

\* -1, 0 or 1 as a is less than, equal to or greater than b
BigCmp(a, b) ==
    The({IF Len(u) > Len(v) THEN 1
         ELSE IF Len(u) < Len(v) THEN -1
         ELSE BigCmpFrom(u, v, Len(u)) : u \in {a}, v \in {b}})

RECURSIVE BigAddFrom(_, _, _, _)
BigAddFrom(a, b, i, carry) ==
    IF i > Len(a) /\ i > Len(b)
    THEN IF carry = 0 THEN <<>> ELSE <<carry>>
    ELSE The({<<t % Limb>> \o BigAddFrom(a, b, i + 1, t \div Limb) :
                t \in {BigLimb(a, i) + BigLimb(b, i) + carry}})

\* a + b
BigAdd(a, b) == The({BigAddFrom(u, v, 1, 0) : u \in {a}, v \in {b}})

RECURSIVE BigSubFrom(_, _, _, _)
BigSubFrom(a, b, i, borrow) ==
    IF i > Len(a)
    THEN <<>>
    ELSE The({<<(t + Limb) % Limb>> \o BigSubFrom(a, b, i + 1, IF t < 0 THEN 1 ELSE 0) :
                t \in {a[i] - BigLimb(b, i) - borrow}})

\* a - b for a >= b
BigSub(a, b) == The({BigTrimmed(BigSubFrom(u, v, 1, 0)) : u \in {a}, v \in {b}})

RECURSIVE BigScaleFrom(_, _, _, _)
BigScaleFrom(a, d, i, carry) ==
    IF i > Len(a)
    THEN IF carry = 0 THEN <<>> ELSE <<carry>>
    ELSE The({<<t % Limb>> \o BigScaleFrom(a, d, i + 1, t \div Limb) :
                t \in {a[i] * d + carry}})

\* a * d for a limb d
BigScale(a, d) ==
    The({IF g = 0 THEN <<>> ELSE BigScaleFrom(u, g, 1, 0) : u \in {a}, g \in {d}})

\* a * 2^n
BigShl(a, n) ==
    The({IF u = <<>>
         THEN <<>>
         ELSE [i \in 1..(k \div LimbBits) |-> 0] \o BigScale(u, 2^(k % LimbBits)) :
            u \in {a}, k \in {n}})

RECURSIVE BigShrFrom(_, _, _)
BigShrFrom(b, r, i) ==
    IF i > Len(b)
    THEN <<>>
    ELSE <<(b[i] \div 2^r) + (BigLimb(b, i + 1) % 2^r) * 2^(LimbBits - r)>>
            \o BigShrFrom(b, r, i + 1)

\* a \div 2^n
BigShr(a, n) ==
    The({BigTrim(BigShrFrom(IF k \div LimbBits >= Len(u)
                            THEN <<>>
                            ELSE SubSeq(u, k \div LimbBits + 1, Len(u)),
                            k % LimbBits, 1)) : u \in {a}, k \in {n}})

RECURSIVE BigMulFrom(_, _, _)
BigMulFrom(a, b, i) ==
    IF i > Len(b)
    THEN <<>>
    ELSE BigAdd(BigShl(BigScale(a, b[i]), LimbBits * (i - 1)), BigMulFrom(a, b, i + 1))

\* a * b
BigMul(a, b) ==
    The({IF u = <<>> THEN <<>> ELSE BigMulFrom(u, v, 1) : u \in {a}, v \in {b}})

RECURSIVE Bits(_)
Bits(n) == IF n = 0 THEN 0 ELSE 1 + Bits(n \div 2)

\* the number of bits of a
BigBits(a) ==
    The({IF u = <<>> THEN 0 ELSE LimbBits * (Len(u) - 1) + Bits(u[Len(u)]) : u \in {a}})

BigOdd(a) == \E u \in {a} : u # <<>> /\ u[1] % 2 = 1

\* a has no bit set below bit n
BigLowZero(a, n) == \E u \in {a}, k \in {n} : BigShl(BigShr(u, k), k) = u

RECURSIVE BigDigit(_, _, _, _)
\* the largest limb g' >= g with d * g' <= n, its bits below bit still to be found
BigDigit(n, d, bit, g) ==
    IF bit < 0
    THEN g
    ELSE The({IF BigCmp(BigScale(d, t), n) <= 0
              THEN BigDigit(n, d, bit - 1, t)
              ELSE BigDigit(n, d, bit - 1, g) : t \in {g + 2^bit}})

\* one step of the long division: the limb n[i] brought down to the
\* remainder of the limbs above it
BigDivStep(n, d, i, above) ==
    The({The({[q |-> <<g>> \o above.q, r |-> BigSub(cur, BigScale(d, g))] :
                g \in {BigDigit(cur, d, LimbBits - 1, 0)}}) :
            cur \in {BigTrim(<<n[i]>> \o above.r)}})

RECURSIVE BigDivFrom(_, _, _)
\* long division of the limbs i and above of n
BigDivFrom(n, d, i) ==
    IF i > Len(n)
    THEN [q |-> <<>>, r |-> <<>>]
    ELSE The({BigDivStep(n, d, i, above) : above \in {BigDivFrom(n, d, i + 1)}})

\* quotient and remainder of n by d > 0
BigDivMod(n, d) ==
    The({[q |-> BigTrim(qr.q), r |-> qr.r] :
            qr \in {The({BigDivFrom(u, v, 1) : u \in {n}, v \in {d}})}})

RECURSIVE BigSqrtFrom(_, _)
\* Newton's iteration from x >= sqrt(n): it decreases until it reaches the root
BigSqrtFrom(n, x) ==
    The({IF BigCmp(y, x) >= 0 THEN x ELSE BigSqrtFrom(n, y) :
            y \in {BigShr(BigAdd(x, BigDivMod(n, x).q), 1)}})

\* the integer square root of n
BigSqrt(n) ==
    The({IF u = <<>>
         THEN <<>>
         ELSE The({BigSqrtFrom(u, x) : x \in {BigShl(<<1>>, (BigBits(u) + 1) \div 2)}}) :
            u \in {n}})

NaN == [k |-> "nan", s |-> 1, m |-> <<>>, e |-> 0]

Infinity(s) == [k |-> "inf", s |-> s, m |-> <<>>, e |-> 0]

Zero == [k |-> "num", s |-> 1, m |-> <<>>, e |-> 0]

\* the largest exponent of a 53-bit mantissa: beyond it the result is an infinity
MaxExponent == 1023 - (MantissaBits - 1)

\* s * m * 2^e for a mantissa m of 53 bits
Finite(s, m, e) ==
    IF e > MaxExponent THEN Infinity(s) ELSE [k |-> "num", s |-> s, m |-> m, e |-> e]

\* m \div 2^d for d > 0, rounded to nearest, ties to even, where the value
\* rounded is m + t with t = 0, or some 0 < t < 1 if sticky
RoundedShr(m, d, sticky) ==
    The({IF BigOdd(BigShr(m, d - 1)) /\ (sticky \/ ~BigLowZero(m, d - 1) \/ BigOdd(q))
         THEN BigAdd(q, <<1>>)
         ELSE q : q \in {BigShr(m, d)}})

\* the double nearest to s * (m + t) * 2^e, where m is a natural of 53 + d
\* bits
RoundBy(s, m, e, sticky, d) ==
    IF m = <<>> THEN Zero
    ELSE IF d <= 0 THEN Finite(s, BigShl(m, 0 - d), e + d)
    ELSE The({IF BigBits(r) > MantissaBits
              THEN Finite(s, BigShr(r, 1), e + d + 1)
              ELSE Finite(s, r, e + d) : r \in {RoundedShr(m, d, sticky)}})

\* the double nearest to s * (m + t) * 2^e for a natural m of any size
Round(s, m, e, sticky) ==
    The({RoundBy(sign, n, exp, t, BigBits(n) - MantissaBits) :
            sign \in {s}, n \in {m}, exp \in {e}, t \in {sticky}})

\* the double of an integer
DblOf(n) == Round(IF n < 0 THEN -1 ELSE 1, BigOf(IF n < 0 THEN 0 - n ELSE n), 0, FALSE)

DblNeg(x) == The({[u EXCEPT !.s = 0 - u.s] : u \in {x}})

\* x + y for finite non-zero x = s * a * 2^e and y = t * b * 2^e
SumAligned(s, a, t, b, e) ==
    IF s = t THEN Round(s, BigAdd(a, b), e, FALSE)
    ELSE The({IF c = 0 THEN Zero
              ELSE IF c > 0 THEN Round(s, BigSub(a, b), e, FALSE)
              ELSE Round(t, BigSub(b, a), e, FALSE) : c \in {BigCmp(a, b)}})

\* x + y, of values
Sum(x, y) ==
    IF x.k = "nan" \/ y.k = "nan" THEN NaN
    ELSE IF x.k = "inf" THEN (IF y.k = "inf" /\ y.s # x.s THEN NaN ELSE x)
    ELSE IF y.k = "inf" THEN y
    ELSE IF x.m = <<>> THEN (IF y.m = <<>> THEN Zero ELSE y)
    ELSE IF y.m = <<>> THEN x
    ELSE IF x.e - y.e > MantissaBits + 2 THEN x
    ELSE IF y.e - x.e > MantissaBits + 2 THEN y
    ELSE The({The({SumAligned(x.s, a, y.s, b, e) :
                    a \in {BigShl(x.m, x.e - e)}, b \in {BigShl(y.m, y.e - e)}}) :
                e \in {IF x.e < y.e THEN x.e ELSE y.e}})

\* x + y
DblAdd(x, y) == The({Sum(u, v) : u \in {x}, v \in {y}})

\* x - y
DblSub(x, y) == The({Sum(u, v) : u \in {x}, v \in {DblNeg(y)}})

\* x * y, of values
Product(x, y) ==
    IF x.k = "nan" \/ y.k = "nan" THEN NaN
    ELSE IF x.k = "inf" \/ y.k = "inf"
    THEN IF (x.k = "num" /\ x.m = <<>>) \/ (y.k = "num" /\ y.m = <<>>)
         THEN NaN
         ELSE Infinity(x.s * y.s)
    ELSE Round(x.s * y.s, BigMul(x.m, y.m), x.e + y.e, FALSE)

\* x * y
DblMul(x, y) == The({Product(u, v) : u \in {x}, v \in {y}})

\* x / y, of values
Quotient(x, y) ==
    IF x.k = "nan" \/ y.k = "nan" THEN NaN
    ELSE IF x.k = "inf" THEN (IF y.k = "inf" THEN NaN ELSE Infinity(x.s * y.s))
    ELSE IF y.k = "inf" THEN Zero
    ELSE IF y.m = <<>> THEN (IF x.m = <<>> THEN NaN ELSE Infinity(x.s * y.s))
    ELSE IF x.m = <<>> THEN Zero
    ELSE The({Round(x.s * y.s, qr.q, x.e - y.e - (MantissaBits + 3), qr.r # <<>>) :
                qr \in {BigDivMod(BigShl(x.m, MantissaBits + 3), y.m)}})

\* x / y
DblDiv(x, y) == The({Quotient(u, v) : u \in {x}, v \in {y}})

\* the double nearest to the square root of n * 2^(2 * e)
RootOf(n, e) ==
    The({Round(1, r, e, BigMul(r, r) # n) : r \in {BigSqrt(n)}})

\* Math.sqrt(x), of a value
Root(x) ==
    IF x.k = "nan" THEN NaN
    ELSE IF x.k = "inf" THEN (IF x.s = 1 THEN x ELSE NaN)
    ELSE IF x.m = <<>> THEN Zero
    ELSE IF x.s = -1 THEN NaN
    ELSE The({RootOf(BigShl(x.m, k), (x.e - k) \div 2) :
                k \in {IF x.e % 2 = 0 THEN MantissaBits + 5 ELSE MantissaBits + 4}})

\* Math.sqrt(x)
DblSqrt(x) == The({Root(u) : u \in {x}})

\* x < y, of values
Less(x, y) ==
    IF x.k = "nan" \/ y.k = "nan" THEN FALSE
    ELSE IF x.k = "inf" THEN x.s = -1 /\ ~(y.k = "inf" /\ y.s = -1)
    ELSE IF y.k = "inf" THEN y.s = 1
    ELSE IF x.m = <<>> THEN y.m # <<>> /\ y.s = 1
    ELSE IF y.m = <<>> THEN x.s = -1
    ELSE IF x.s # y.s THEN x.s = -1
    ELSE IF x.e # y.e THEN (x.s = 1) = (x.e < y.e)
    ELSE IF x.s = 1 THEN BigCmp(x.m, y.m) < 0 ELSE BigCmp(x.m, y.m) > 0

\* x < y
DblLess(x, y) == \E u \in {x}, v \in {y} : Less(u, v)

-----------------------------------------------------------------------------
(* Finger states *)

FingerStates == [thumb : BOOLEAN, index : BOOLEAN, middle : BOOLEAN,
                 ring : BOOLEAN, pinky : BOOLEAN]

\* lines 110-116 up to the argument of Math.acos: dot / (magAB * magBC),
\* every operation rounded as the source's (x ** 2 is x * x).  The angle
\* itself is Math.acos of it in degrees; see AngleExceeds.
calculateAngle(a, b, c) ==
    The({LET dot == DblAdd(DblAdd(DblMul(ab[1], bc[1]), DblMul(ab[2], bc[2])),
                           DblMul(ab[3], bc[3]))
             magAB == DblSqrt(DblAdd(DblAdd(DblMul(ab[1], ab[1]), DblMul(ab[2], ab[2])),
                                     DblMul(ab[3], ab[3])))
             magBC == DblSqrt(DblAdd(DblAdd(DblMul(bc[1], bc[1]), DblMul(bc[2], bc[2])),
                                     DblMul(bc[3], bc[3])))
         IN  DblDiv(dot, DblMul(magAB, magBC)) :
            ab \in {<<DblSub(a[1], b[1]), DblSub(a[2], b[2]), DblSub(a[3], b[3])>>},
            bc \in {<<DblSub(c[1], b[1]), DblSub(c[2], b[2]), DblSub(c[3], b[3])>>}})

MinusOne == DblOf(-1)

\* the least double x for which Math.acos(x) * (180 / Math.PI) > deg is
\* false, Math.acos being that of V8 (fdlibm's e_acos.c), for the thresholds of lines 120-124:
\* -0x1.e11f642522d1bp-1 for 160 and -0x1.63a1a7e0b738bp-3 for 100
CosineBound(deg) ==
    IF deg = 160
    THEN [k |-> "num", s |-> -1, m |-> <<11547, 1188, 18393, 240>>, e |-> -53]
    ELSE [k |-> "num", s |-> -1, m |-> <<29579, 31766, 26729, 177>>, e |-> -55]

\* AngleExceeds as !(angle <= deg): true of NaN
AngleExceeds_NotAtMost(cosine, deg) ==
    \/ cosine.k # "num"
    \/ DblLess(cosine, MinusOne)
    \/ DblLess(cosine, CosineBound(deg))

\* Math.acos(cosine) * (180 / Math.PI) > deg, lines 116 and 120-124, for deg
\* in {100, 160}.  Math.acos decreases from 180 degrees at -1, so the angle
\* exceeds deg iff the cosine is in [-1, CosineBound(deg)).  Outside [-1, 1]
\* and of NaN, Math.acos is NaN, and NaN > deg is false.
AngleExceeds(cosine, deg) ==
    /\ cosine.k = "num"
    /\ ~DblLess(cosine, MinusOne)
    /\ DblLess(cosine, CosineBound(deg))

\* line 108: [l[0] / width, l[1] / height, l[2]]
Normalize(l, width, height) ==
    <<DblDiv(DblOf(l[1]), DblOf(width)), DblDiv(DblOf(l[2]), DblOf(height)), DblOf(l[3])>>

-----------------------------------------------------------------------------
(* Joints given to the model: the three landmarks of a finger's triplet in  *)
(* pixel coordinates, by the shape of the joint.                            *)

Shapes == {"straight", "slanted", "bent", "oblique", "coincident", "folded"}

\* the shapes with a joint vector of zero magnitude
DegenerateShapes == {"coincident", "folded"}

\* the first landmark of a finger's triplet, for a joint at b
Base(b, shape) ==
    CASE shape = "slanted" -> <<b[1] + 3, b[2] + 3, b[3]>>
      [] shape = "folded"  -> b
      [] OTHER             -> <<b[1] - 1, b[2], b[3]>>

\* the third landmark of the triplet: 180 degrees along the x axis
\* (straight) and along a diagonal (slanted), 90 and 135 degrees in pixel
\* space, and a tip that coincides with the joint (coincident: the second
\* vector is zero; folded: the first landmark coincides with the joint too,
\* both are zero)
Tip(b, shape) ==
    CASE shape = "straight"   -> <<b[1] + 1, b[2], b[3]>>
      [] shape = "slanted"    -> <<b[1] - 3, b[2] - 3, b[3]>>
      [] shape = "bent"       -> <<b[1], b[2] + 1, b[3]>>
      [] shape = "oblique"    -> <<b[1] + 1, b[2] + 1, b[3]>>
      [] shape = "coincident" -> b
      [] shape = "folded"     -> b

\* landmarks 4f+1 .. 4f+4 of finger f (0 = thumb .. 4 = pinky).  The thumb's
\* triplet is its 2nd, 3rd and 4th landmark, the other fingers' their 1st,
\* 2nd and 4th.
FingerLandmarks(f, shape) ==
    LET b == <<3 * f + 2, 2, 1>>
        a == Base(b, shape)
        c == Tip(b, shape)
    IN  IF f = 0 THEN <<a, a, b, c>> ELSE <<a, b, b, c>>

\* (videoWidth, videoHeight) as detectHands may read them: a 4:3 stream, and
\* a video whose metadata is not loaded yet
FrameSizes == {<<4, 3>>, <<0, 0>>, <<4, 0>>, <<0, 3>>}

\* (videoWidth, videoHeight) as recognizeGesture may read them at line 81,
\* after the await of line 49: the stream's size, or none once the video
\* element was reset
LateSizes == {<<4, 3>>, <<0, 0>>}

\* frame sizes with both dimensions positive
ReadySizes == {<<4, 3>>, <<1, 1>>, <<3, 1>>}


\* the cosine of the angle at landmark b, as getFingerStates computes it from
\* the landmarks a, b and c of a hand (lines 108 and 110-116)
JointCosine(a, b, c, width, height) ==
    The({calculateAngle(normalizedLandmarks[1], normalizedLandmarks[2],
                        normalizedLandmarks[3]) :
            normalizedLandmarks \in {<<Normalize(a, width, height),
                                       Normalize(b, width, height),
                                       Normalize(c, width, height)>>}})

\* the triplets of the hands built here, with the frame sizes they are read at
KnownJoints ==
    {<<FingerLandmarks(f, shape)[IF f = 0 THEN 2 ELSE 1], FingerLandmarks(f, shape)[3],
       FingerLandmarks(f, shape)[4], size[1], size[2]>> :
        f \in 0..4, shape \in Shapes, size \in ReadySizes \cup FrameSizes}

\* JointCosine on KnownJoints, computed once (@@ builds the table)
KnownCosines ==
    [j \in KnownJoints |-> JointCosine(j[1], j[2], j[3], j[4], j[5])] @@ <<>>

\* JointCosine, looked up where it is known
Cosine(joint) ==
    The({IF joint \in DOMAIN known
         THEN known[joint]
         ELSE JointCosine(joint[1], joint[2], joint[3], joint[4], joint[5]) :
            known \in {KnownCosines}})

\* lines 120-124: the landmarks of each finger's angle and its threshold
FingerAngles == <<(<<2, 3, 4, 100>>), <<5, 6, 8, 160>>, <<9, 10, 12, 160>>,
                  <<13, 14, 16, 160>>, <<17, 18, 20, 160>>>>

\* lines 107-126.  Reading a landmark the hand does not have gives undefined,
\* and calculateAngle's a[0], b[0] or c[0] on undefined throws a TypeError.
getFingerStates(landmarks, width, height) ==
    IF Len(landmarks) < LANDMARKS
    THEN [throws |-> TRUE]
    ELSE The({[throws |-> FALSE,
               fingers |-> [thumb |-> extended[1], index |-> extended[2],
                            middle |-> extended[3], ring |-> extended[4],
                            pinky |-> extended[5]]] :
                extended \in
                    {[f \in 1..Len(FingerAngles) |->
                        AngleExceeds(Cosine(<<landmarks[FingerAngles[f][1] + 1],
                                              landmarks[FingerAngles[f][2] + 1],
                                              landmarks[FingerAngles[f][3] + 1],
                                              width, height>>),
                                     FingerAngles[f][4])]}})

-----------------------------------------------------------------------------
(* Single-hand classifier and two-hand composer *)

\* RuleMatches with a peace rule that does not look at ring and pinky
RuleMatches_LoosePeace(k, fingers) ==
    CASE k = 1 -> fingers.index /\ fingers.middle /\ fingers.ring /\ fingers.pinky
                    /\ fingers.thumb
      [] k = 2 -> fingers.thumb /\ ~fingers.index /\ ~fingers.middle /\ ~fingers.ring
                    /\ ~fingers.pinky
      [] k = 3 -> ~fingers.thumb /\ fingers.index /\ ~fingers.middle /\ ~fingers.ring
                    /\ ~fingers.pinky
      [] k = 4 -> ~fingers.thumb /\ ~fingers.index /\ ~fingers.middle /\ ~fingers.ring
                    /\ ~fingers.pinky
      [] k = 5 -> fingers.index /\ fingers.middle

\* the conditions of lines 89, 92, 95, 98 and 101, each on its own
RuleMatches(k, fingers) ==
    CASE k = 1 -> fingers.index /\ fingers.middle /\ fingers.ring /\ fingers.pinky
                    /\ fingers.thumb
      [] k = 2 -> fingers.thumb /\ ~fingers.index /\ ~fingers.middle /\ ~fingers.ring
                    /\ ~fingers.pinky
      [] k = 3 -> ~fingers.thumb /\ fingers.index /\ ~fingers.middle /\ ~fingers.ring
                    /\ ~fingers.pinky
      [] k = 4 -> ~fingers.thumb /\ ~fingers.index /\ ~fingers.middle /\ ~fingers.ring
                    /\ ~fingers.pinky
      [] k = 5 -> fingers.index /\ fingers.middle /\ ~fingers.ring /\ ~fingers.pinky

\* the labels of lines 90, 93, 96, 99 and 102
RuleLabels == <<OpenHand, ThumbsUp, NoIndex, Fist, Peace>>

\* the conditions of lines 218, 221, 224, 227 and 230 (the position-based
\* component's recognizeGesture), each on its own
PositionRuleMatches(k, fingers) ==
    CASE k = 1 -> fingers.index /\ fingers.middle /\ fingers.ring /\ fingers.pinky
                    /\ fingers.thumb
      [] k = 2 -> fingers.thumb /\ ~fingers.index /\ ~fingers.middle /\ ~fingers.ring
                    /\ ~fingers.pinky
      [] k = 3 -> ~fingers.thumb /\ ~fingers.index /\ ~fingers.middle /\ ~fingers.ring
                    /\ ~fingers.pinky
      [] k = 4 -> fingers.index /\ ~fingers.middle /\ ~fingers.ring /\ ~fingers.pinky
      [] k = 5 -> fingers.index /\ fingers.middle /\ ~fingers.ring /\ ~fingers.pinky

\* identifyHandGesture with the peace rule also asking for a flexed thumb
identifyHandGesture_PeaceThumbFlexed(fingers) ==
    IF fingers.index /\ fingers.middle /\ fingers.ring /\ fingers.pinky /\ fingers.thumb
    THEN OpenHand
    ELSE IF fingers.thumb /\ ~fingers.index /\ ~fingers.middle /\ ~fingers.ring /\ ~fingers.pinky
    THEN ThumbsUp
    ELSE IF ~fingers.thumb /\ fingers.index /\ ~fingers.middle /\ ~fingers.ring /\ ~fingers.pinky
    THEN NoIndex
    ELSE IF ~fingers.thumb /\ ~fingers.index /\ ~fingers.middle /\ ~fingers.ring /\ ~fingers.pinky
    THEN Fist
    ELSE IF ~fingers.thumb /\ fingers.index /\ fingers.middle /\ ~fingers.ring /\ ~fingers.pinky
    THEN Peace
    ELSE Unknown

\* lines 88-105: ordered rules, first match wins
identifyHandGesture(fingers) ==
    IF fingers.index /\ fingers.middle /\ fingers.ring /\ fingers.pinky /\ fingers.thumb
    THEN OpenHand
    ELSE IF fingers.thumb /\ ~fingers.index /\ ~fingers.middle /\ ~fingers.ring /\ ~fingers.pinky
    THEN ThumbsUp
    ELSE IF ~fingers.thumb /\ fingers.index /\ ~fingers.middle /\ ~fingers.ring /\ ~fingers.pinky
    THEN NoIndex
    ELSE IF ~fingers.thumb /\ ~fingers.index /\ ~fingers.middle /\ ~fingers.ring /\ ~fingers.pinky
    THEN Fist
    ELSE IF fingers.index /\ fingers.middle /\ ~fingers.ring /\ ~fingers.pinky
    THEN Peace
    ELSE Unknown

\* line 129: gestures.sort() on a two-element array of labels
SortPair(gestures) ==
    IF Rank(gestures[2]) < Rank(gestures[1])
    THEN <<gestures[2], gestures[1]>>
    ELSE gestures

\* recognizeTwoHandGestures without the sort and with the first rule reading
\* the first label only
recognizeTwoHandGestures_FirstOnly(gestures) ==
    LET g1 == gestures[1]
        g2 == gestures[2]
    IN  IF g1 = OpenHand THEN AllDone
        ELSE IF g1 = Fist /\ g2 = Fist THEN More
        ELSE IF g1 = ThumbsUp /\ g2 = ThumbsUp THEN Help
        ELSE UnknownTwoHand

\* recognizeTwoHandGestures matching the fist label of the position-based
\* component (line 225) instead of the one identifyHandGesture returns
recognizeTwoHandGestures_PlainFist(gestures) ==
    LET g1 == gestures[1]
        g2 == gestures[2]
    IN  IF g1 = OpenHand /\ g2 = OpenHand THEN AllDone
        ELSE IF g1 = "Fist" /\ g2 = "Fist" THEN More
        ELSE IF g1 = ThumbsUp /\ g2 = ThumbsUp THEN Help
        ELSE UnknownTwoHand

\* lines 128-134
recognizeTwoHandGestures(gestures) ==
    LET sorted == SortPair(gestures)
        g1 == sorted[1]
        g2 == sorted[2]
    IN  IF g1 = OpenHand /\ g2 = OpenHand THEN AllDone
        ELSE IF g1 = Fist /\ g2 = Fist THEN More
        ELSE IF g1 = ThumbsUp /\ g2 = ThumbsUp THEN Help
        ELSE UnknownTwoHand

\* line 85 without the two-hand composition: the first hand's label alone
recognizeGesture_FirstHand(hands, width, height) ==
    IF Len(hands) = 0
    THEN [throws |-> FALSE, label |-> Unknown]
    ELSE The({IF \E i \in 1..Len(hands) : states[i].throws
              THEN [throws |-> TRUE]
              ELSE The({[throws |-> FALSE,
                         label |-> gestures[1]] :
                        gestures \in
                            {Table([i \in 1..Len(hands) |->
                                        identifyHandGesture(states[i].fingers)])}}) :
                states \in
                    {Table([i \in 1..Len(hands) |->
                                getFingerStates(hands[i], width, height)])}})

\* recognizeGesture composing the first two labels of two hands or more
recognizeGesture_AtLeastTwo(hands, width, height) ==
    IF Len(hands) = 0
    THEN [throws |-> FALSE, label |-> Unknown]
    ELSE The({IF \E i \in 1..Len(hands) : states[i].throws
              THEN [throws |-> TRUE]
              ELSE The({[throws |-> FALSE,
                         label |-> IF Len(gestures) >= 2
                                   THEN recognizeTwoHandGestures(
                                            <<gestures[1], gestures[2]>>)
                                   ELSE gestures[1]] :
                        gestures \in
                            {Table([i \in 1..Len(hands) |->
                                        identifyHandGesture(states[i].fingers)])}}) :
                states \in
                    {Table([i \in 1..Len(hands) |->
                                getFingerStates(hands[i], width, height)])}})

\* lines 77-86.  hands.map classifies every hand in order, so a TypeError of
\* getFingerStates on any hand leaves recognizeGesture before a label exists.
recognizeGesture(hands, width, height) ==
    IF Len(hands) = 0
    THEN [throws |-> FALSE, label |-> Unknown]
    ELSE The({IF \E i \in 1..Len(hands) : states[i].throws
              THEN [throws |-> TRUE]
              ELSE The({[throws |-> FALSE,
                         label |-> IF Len(gestures) = 2
                                   THEN recognizeTwoHandGestures(gestures)
                                   ELSE gestures[1]] :
                        gestures \in
                            {Table([i \in 1..Len(hands) |->
                                        identifyHandGesture(states[i].fingers)])}}) :
                states \in
                    {Table([i \in 1..Len(hands) |->
                                getFingerStates(hands[i], width, height)])}})

-----------------------------------------------------------------------------
(* The position-based component (second script).  Its functions bear the   *)
(* names of the first script's; here they carry the suffix ByPosition.     *)

\* lines 235-247: getFingerStates, on a hand of at least 21 landmarks
getFingerStatesByPosition(landmarks) ==
    LET isExtended(tipIndex, pipIndex, baseIndex) ==
            /\ landmarks[tipIndex + 1][2] < landmarks[pipIndex + 1][2]
            /\ landmarks[pipIndex + 1][2] < landmarks[baseIndex + 1][2]
    IN  [thumb  |-> landmarks[5][1] > landmarks[4][1],
         index  |-> isExtended(8, 6, 5),
         middle |-> isExtended(12, 10, 9),
         ring   |-> isExtended(16, 14, 13),
         pinky  |-> isExtended(20, 18, 17)]

\* the labels of lines 219, 222, 225, 228 and 231
PositionRuleLabels == <<"Open Hand", "Thumbs Up", "Fist", "Pointing Up", "Peace Sign">>

\* lines 213-233: recognizeGesture, the first rule that matches
recognizeGestureByPosition(landmarks) ==
    IF Len(landmarks) < LANDMARKS
    THEN Unknown
    ELSE LET fingers == getFingerStatesByPosition(landmarks)
             matching == {k \in 1..Len(PositionRuleLabels) : PositionRuleMatches(k, fingers)}
         IN  IF matching = {}
             THEN Unknown
             ELSE PositionRuleLabels[CHOOSE k \in matching : \A j \in matching : k <= j]

\* lines 199-211: detectHands on the component's detectedGesture, for the
\* hands estimateHands resolves with; it asks for the next animation frame
\* unless it returned at line 200
detectHandsByPosition(gesture, predictionsArray, width, height) ==
    IF width = 0 \/ height = 0
    THEN [gesture |-> gesture, again |-> FALSE]
    ELSE IF Len(predictionsArray) > 0
    THEN [gesture |-> recognizeGestureByPosition(predictionsArray[1]), again |-> TRUE]
    ELSE [gesture |-> NoHand, again |-> TRUE]

-----------------------------------------------------------------------------
(* Temporal smoother *)

\* updateGestureHistory without the shift
updateGestureHistory_NoShift(history, gesture) == Append(history, gesture)

\* updateGestureHistory dropping the newest label instead of the oldest
updateGestureHistory_Pop(history, gesture) ==
    LET pushed == Append(history, gesture)
    IN  IF Len(pushed) > GESTURE_HISTORY_LENGTH
        THEN SubSeq(pushed, 1, GESTURE_HISTORY_LENGTH)
        ELSE pushed

\* updateGestureHistory with unshift and pop: the newest label first
updateGestureHistory_Unshift(history, gesture) ==
    LET pushed == <<gesture>> \o history
    IN  IF Len(pushed) > GESTURE_HISTORY_LENGTH
        THEN SubSeq(pushed, 1, GESTURE_HISTORY_LENGTH)
        ELSE pushed

\* lines 64-69: push, then shift once the length exceeds the capacity
updateGestureHistory(history, gesture) ==
    LET pushed == Append(history, gesture)
    IN  IF Len(pushed) > GESTURE_HISTORY_LENGTH THEN Tail(pushed) ELSE pushed

\* line 73, one iteration: counts[g] = (counts[g] || 0) + 1.  counts is kept
\* as its Object.entries: the keys in the order they were first assigned.
CountGesture(entries, g) ==
    IF \E i \in 1..Len(entries) : entries[i][1] = g
    THEN [i \in 1..Len(entries) |->
            IF entries[i][1] = g THEN <<g, entries[i][2] + 1>> ELSE entries[i]]
    ELSE Append(entries, <<g, 1>>)

RECURSIVE CountEntries(_)
\* line 73: gestureHistory.forEach(...)
CountEntries(history) ==
    IF history = <<>>
    THEN <<>>
    ELSE CountGesture(CountEntries(SubSeq(history, 1, Len(history) - 1)),
                      history[Len(history)])

\* InsertByCount putting e before the entries of equal count
InsertByCount_BeforeEqual(sorted, e) ==
    LET k == Cardinality({i \in 1..Len(sorted) : sorted[i][2] > e[2]})
    IN  SubSeq(sorted, 1, k) \o <<e>> \o SubSeq(sorted, k + 1, Len(sorted))

\* one insertion of the stable sort by (a, b) => b[1] - a[1]: e goes after
\* every entry whose count is at least its own
InsertByCount(sorted, e) ==
    LET k == Cardinality({i \in 1..Len(sorted) : sorted[i][2] >= e[2]})
    IN  SubSeq(sorted, 1, k) \o <<e>> \o SubSeq(sorted, k + 1, Len(sorted))

RECURSIVE SortByCount(_)
\* line 74: .sort((a, b) => b[1] - a[1]), stable since ES2019
SortByCount(entries) ==
    IF entries = <<>>
    THEN <<>>
    ELSE InsertByCount(SortByCount(SubSeq(entries, 1, Len(entries) - 1)),
                       entries[Len(entries)])

\* getMostFrequentGesture without the sort: the first key of counts
getMostFrequentGesture_FirstKey(history) ==
    LET entries == CountEntries(history)
    IN  IF entries = <<>> THEN Unknown ELSE entries[1][1]

\* lines 71-75
getMostFrequentGesture(history) ==
    LET sorted == SortByCount(CountEntries(history))
    IN  IF sorted = <<>> THEN Unknown ELSE sorted[1][1]

-----------------------------------------------------------------------------
(* Hands given to the model: 21 landmarks in pixel coordinates, built from  *)
(* the shape of each finger's joint.                                        *)

MakeHand(shapes) ==
    <<(<<0, 0, 0>>)>> \o FingerLandmarks(0, shapes[1]) \o FingerLandmarks(1, shapes[2])
        \o FingerLandmarks(2, shapes[3]) \o FingerLandmarks(3, shapes[4])
        \o FingerLandmarks(4, shapes[5])

ShapeOf(extended) == IF extended THEN "straight" ELSE "bent"

\* a well-formed hand whose fingers are extended or flexed as fs says
HandOf(fs) ==
    MakeHand(<<ShapeOf(fs.thumb), ShapeOf(fs.index), ShapeOf(fs.middle),
               ShapeOf(fs.ring), ShapeOf(fs.pinky)>>)

Fingers(t, i, m, r, p) == [thumb |-> t, index |-> i, middle |-> m, ring |-> r, pinky |-> p]

OpenVector == Fingers(TRUE, TRUE, TRUE, TRUE, TRUE)
FistVector == Fingers(FALSE, FALSE, FALSE, FALSE, FALSE)
ThumbVector == Fingers(TRUE, FALSE, FALSE, FALSE, FALSE)

\* the first n landmarks of a hand
Truncated(hand, n) == SubSeq(hand, 1, n)

\* a hand of 19 landmarks
ShortHand == Truncated(HandOf(OpenVector), 19)

\* the hands the pose model reports in the frame loop
LoopHands == {HandOf(OpenVector), HandOf(FistVector), ShortHand}

\* sequences of 0 .. n elements of S
RECURSIVE SeqsUpTo(_, _)
SeqsUpTo(S, n) ==
    IF n = 0
    THEN {<<>>}
    ELSE LET shorter == SeqsUpTo(S, n - 1)
         IN  shorter \cup {Append(q, x) : q \in {t \in shorter : Len(t) = n - 1}, x \in S}

\* what estimateHands may resolve to
Predictions == SeqsUpTo(LoopHands, MaxHands)

\* recognizeGesture on every frame the loop can classify, evaluated once
Recognized ==
    [predictions \in Predictions, size \in FrameSizes |->
        recognizeGesture(predictions, size[1], size[2])]

-----------------------------------------------------------------------------
(* The frame loop *)

\* size is the frame size an onFrame step read, <<>> for the other steps
NoOp(op) == [op |-> op, hands |-> 0, threw |-> FALSE, label |-> "", size |-> <<>>]

Init ==
    /\ model = FALSE
    /\ camera = FALSE
    /\ detectedGesture = ""
    /\ gestureHistory = <<>>
    /\ isDetecting = FALSE
    /\ inFlight = <<>>
    /\ rejected = FALSE
    /\ lastOp = NoOp("init")
    /\ prevHistory = <<>>
    /\ window = <<>>
    /\ fn = "idle"
    /\ arg = [f |-> "none"]
    /\ res = [throws |-> FALSE]

\* lines 17-19: model = await handpose.load()
LoadModel ==
    /\ ~model
    /\ model' = TRUE
    /\ lastOp' = NoOp("load")
    /\ prevHistory' = <<>>
    /\ UNCHANGED <<camera, detectedGesture, gestureHistory, isDetecting, inFlight,
                   rejected, window>>
    /\ UNCHANGED fnVars

\* lines 20, 23-44: setupCamera() after the model is loaded
SetupCamera ==
    /\ model
    /\ ~camera
    /\ camera' = TRUE
    /\ lastOp' = NoOp("camera")
    /\ prevHistory' = <<>>
    /\ UNCHANGED <<model, detectedGesture, gestureHistory, isDetecting, inFlight,
                   rejected, window>>
    /\ UNCHANGED fnVars

\* the guard of line 32 without the busy flag
OnFrameGuard_NoBusyFlag == model

\* line 32: if (model && !isDetecting)
OnFrameGuard == model /\ ~isDetecting

\* line 47: the early return of detectHands (video is the element of line
\* 160, found at line 24 before the camera exists)
FrameNotReady(width, height) == ~model \/ width = 0 \/ height = 0

\* lines 31-34, 46-49: onFrame sets the flag and detectHands reaches its
\* await of estimateHands
OnFrameStart ==
    \E size \in FrameSizes :
        /\ camera
        /\ OnFrameGuard
        /\ ~FrameNotReady(size[1], size[2])
        /\ Len(inFlight) < MaxInFlight
        /\ isDetecting' = TRUE
        /\ inFlight' = Append(inFlight, [at |-> "estimateHands", width |-> size[1],
                                         height |-> size[2]])
        /\ lastOp' = [NoOp("start") EXCEPT !.size = size]
        /\ prevHistory' = <<>>
        /\ UNCHANGED <<model, camera, detectedGesture, gestureHistory, rejected, window>>
        /\ UNCHANGED fnVars

\* lines 31-34, 47: onFrame sets the flag and detectHands returns at once;
\* the await of line 34 still yields, and line 35 runs in a later microtask
OnFrameNotReady ==
    \E size \in FrameSizes :
        /\ camera
        /\ OnFrameGuard
        /\ FrameNotReady(size[1], size[2])
        /\ Len(inFlight) < MaxInFlight
        /\ isDetecting' = TRUE
        /\ inFlight' = Append(inFlight, [at |-> "resume", width |-> size[1],
                                         height |-> size[2]])
        /\ lastOp' = [NoOp("notReady") EXCEPT !.size = size]
        /\ prevHistory' = <<>>
        /\ UNCHANGED <<model, camera, detectedGesture, gestureHistory, rejected, window>>
        /\ UNCHANGED fnVars

\* lines 31-32: the guard fails and the callback does nothing
OnFrameBusy ==
    /\ camera
    /\ ~OnFrameGuard
    /\ lastOp' = NoOp("busy")
    /\ prevHistory' = <<>>
    /\ UNCHANGED <<model, camera, detectedGesture, gestureHistory, isDetecting,
                   inFlight, rejected, window>>
    /\ UNCHANGED fnVars

Without(q, i) == SubSeq(q, 1, i - 1) \o SubSeq(q, i + 1, Len(q))

\* the newest GESTURE_HISTORY_LENGTH labels of w followed by label
Newest(w, label) ==
    LET all == Append(w, label)
    IN  IF Len(all) <= GESTURE_HISTORY_LENGTH
        THEN all
        ELSE SubSeq(all, Len(all) - GESTURE_HISTORY_LENGTH + 1, Len(all))

\* line 57 left out
ClearedHistory_Kept(history) == history

\* line 57
ClearedHistory(history) == <<>>

\* lines 51-58 with line 54 before line 53: the vote taken on the history
\* as it was before the frame's label was pushed
detectHandsOutcome_VoteFirst(history, gesture, hands, r) ==
    IF hands > 0
    THEN IF r.throws
         THEN [threw |-> TRUE, history |-> history, gesture |-> gesture]
         ELSE [threw |-> FALSE,
               history |-> updateGestureHistory(history, r.label),
               gesture |-> getMostFrequentGesture(history)]
    ELSE [threw |-> FALSE, history |-> ClearedHistory(history), gesture |-> NoHand]

\* lines 51-58: what detectHands makes of gestureHistory and detectedGesture
\* once estimateHands has resolved with `hands` hands, r being the outcome of
\* recognizeGesture on them.  An exception of recognizeGesture leaves
\* detectHands before either assignment.
detectHandsOutcome(history, gesture, hands, r) ==
    IF hands > 0
    THEN IF r.throws
         THEN [threw |-> TRUE, history |-> history, gesture |-> gesture]
         ELSE LET updated == updateGestureHistory(history, r.label)
              IN  [threw |-> FALSE,
                   history |-> updated,
                   gesture |-> getMostFrequentGesture(updated)]
    ELSE [threw |-> FALSE, history |-> ClearedHistory(history), gesture |-> NoHand]

\* lines 49-61: estimateHands resolves with predictions and the rest of
\* detectHands runs, recognizeGesture reading the size of the video anew
\* (line 81, only when there are hands).  detectHands fulfils and onFrame
\* is left to resume at line 35; an exception of recognizeGesture rejects
\* detectHands' promise and with it onFrame's, whose line 35 is then never
\* reached.
EstimateHandsResolves ==
    \E i \in 1..Len(inFlight), predictions \in Predictions, size \in LateSizes :
    \E r \in {Recognized[predictions, size]} :
    \E out \in {detectHandsOutcome(gestureHistory, detectedGesture, Len(predictions), r)} :
        LET labelled == Len(predictions) > 0 /\ ~r.throws
        IN  /\ inFlight[i].at = "estimateHands"
            /\ inFlight' = IF out.threw
                           THEN Without(inFlight, i)
                           ELSE [inFlight EXCEPT ![i].at = "resume"]
            /\ lastOp' = [op |-> "frame", hands |-> Len(predictions), threw |-> out.threw,
                          label |-> IF labelled THEN r.label ELSE "",
                          size |-> IF Len(predictions) > 0 THEN size ELSE <<>>]
            /\ prevHistory' = gestureHistory
            /\ gestureHistory' = out.history
            /\ detectedGesture' = out.gesture
            /\ rejected' = (rejected \/ out.threw)
            /\ window' = IF out.threw THEN window
                         ELSE IF labelled THEN Newest(window, r.label) ELSE <<>>
            /\ UNCHANGED <<model, camera, isDetecting>>
            /\ UNCHANGED fnVars

\* line 35: detectHands has fulfilled and onFrame clears the flag
OnFrameResumes ==
    \E i \in 1..Len(inFlight) :
        /\ inFlight[i].at = "resume"
        /\ inFlight' = Without(inFlight, i)
        /\ isDetecting' = FALSE
        /\ lastOp' = NoOp("resume")
        /\ prevHistory' = <<>>
        /\ UNCHANGED <<model, camera, detectedGesture, gestureHistory, rejected, window>>
        /\ UNCHANGED fnVars

\* line 49: estimateHands rejects; detectHands and onFrame reject with it
EstimateHandsRejects ==
    \E i \in 1..Len(inFlight) :
        /\ inFlight[i].at = "estimateHands"
        /\ inFlight' = Without(inFlight, i)
        /\ rejected' = TRUE
        /\ lastOp' = NoOp("rejected")
        /\ prevHistory' = <<>>
        /\ UNCHANGED <<model, camera, detectedGesture, gestureHistory, isDetecting, window>>
        /\ UNCHANGED fnVars

Next ==
    \/ LoadModel
    \/ SetupCamera
    \/ OnFrameStart
    \/ OnFrameNotReady
    \/ OnFrameBusy
    \/ EstimateHandsResolves
    \/ OnFrameResumes
    \/ EstimateHandsRejects

Spec == Init /\ [][Next]_vars

-----------------------------------------------------------------------------
(* Function-level checks: one call of one function on one input.  Init     *)
(* draws the call, the function's action applies it.                       *)

\* every hand MakeHand builds: each finger straight, bent, oblique or with a
\* coincident tip
HandShapes == {<<t, i, m, r, p>> : t \in Shapes, i \in Shapes, m \in Shapes,
                                   r \in Shapes, p \in Shapes}

ShapedHands == {MakeHand(shapes) : shapes \in HandShapes}

\* hands with fewer than 21 landmarks
ShortHands == {Truncated(HandOf(fs), n) : fs \in {OpenVector, FistVector}, n \in {3, 19, 20}}

VoteLabels == {Fist, OpenHand, Unknown, More}

\* the history of the tie-break example
TieHistory == <<Fist, OpenHand, Fist, OpenHand, Unknown>>

\* shapes records what the hand was built from, <<>> for a short hand
FingerStatesCalls ==
    {[f |-> "getFingerStates", shapes |-> shapes, landmarks |-> MakeHand(shapes),
      width |-> size[1], height |-> size[2]] :
        shapes \in HandShapes, size \in ReadySizes}
    \cup {[f |-> "getFingerStates", shapes |-> <<>>, landmarks |-> hand,
           width |-> size[1], height |-> size[2]] :
            hand \in ShortHands, size \in ReadySizes}
    \cup {[f |-> "getFingerStates", shapes |-> <<shape, shape, shape, shape, shape>>,
           landmarks |-> MakeHand(<<shape, shape, shape, shape, shape>>),
           width |-> size[1], height |-> size[2]] :
            shape \in Shapes, size \in FrameSizes}

IdentifyCalls == {[f |-> "identifyHandGesture", fingers |-> fs] : fs \in FingerStates}

TwoHandCalls ==
    {[f |-> "recognizeTwoHandGestures", gestures |-> <<a, b>>] :
        a \in SingleHandLabels, b \in SingleHandLabels}

\* frames of one or two hands of any finger-state vector, the hands built
\* from the vectors the call records
VectorFrames == {q \in SeqsUpTo(FingerStates, 2) : Len(q) > 0}

\* frames that hold a hand of fewer than 21 landmarks, alone, first or last
ShortFrames ==
    {<<s>> : s \in ShortHands}
        \cup {<<s, HandOf(fs)>> : s \in ShortHands, fs \in {OpenVector, FistVector}}
        \cup {<<HandOf(fs), s>> : s \in ShortHands, fs \in {OpenVector, FistVector}}
        \cup {<<HandOf(fs), HandOf(fs), s>> : s \in ShortHands, fs \in {OpenVector, FistVector}}

\* frames of three well-formed hands, by their finger-state vectors
ThreeHandVectors ==
    {<<a, b, c>> :
        a \in {OpenVector, FistVector, ThumbVector, Fingers(TRUE, TRUE, TRUE, FALSE, FALSE)},
        b \in {OpenVector, FistVector},
        c \in {OpenVector, FistVector, ThumbVector}}

ThreeHandFrames == {[i \in 1..3 |-> HandOf(q[i])] : q \in ThreeHandVectors}

RecognizeCalls ==
    {[f |-> "recognizeGesture", vectors |-> q,
      hands |-> [i \in 1..Len(q) |-> HandOf(q[i])], width |-> 4, height |-> 3] :
        q \in VectorFrames \cup ThreeHandVectors}
    \cup {[f |-> "recognizeGesture", vectors |-> <<>>, hands |-> hs, width |-> 4, height |-> 3] :
            hs \in ShortFrames \cup {<<>>}}

VoteCalls ==
    {[f |-> "getMostFrequentGesture", history |-> h] :
        h \in SeqsUpTo(VoteLabels, GESTURE_HISTORY_LENGTH)}

\* lines 12-15: the component as it is mounted.  at is where the callback in
\* flight waits: "estimateHands" (line 49), "resume" (line 34, detectHands
\* fulfilled), "idle" when there is none
StartState == [history |-> <<>>, gesture |-> "", isDetecting |-> FALSE, at |-> "idle"]

\* a frame the camera delivers: width and height are what line 47 reads,
\* hands what estimateHands resolves to, late what line 81 reads, and when
\* says where the callback before it stands as the frame arrives: ended
\* ("idle"), awaiting estimateHands ("awaiting") or past lines 51-61 and not
\* yet at line 35 ("resuming")
Frame(hands) == [hands |-> hands, width |-> 4, height |-> 3, late |-> <<4, 3>>,
                 when |-> "idle"]

ZeroHandFrame == Frame(<<>>)

OpenHandFrame == Frame(<<HandOf(OpenVector)>>)

TwoFistFrame == Frame(<<HandOf(FistVector), HandOf(FistVector)>>)

ShortHandFrame == Frame(<<ShortHand>>)

\* the video has no size when line 47 reads it
NotReadyFrame == [Frame(<<>>) EXCEPT !.width = 0, !.height = 0]

\* the video loses its size while estimateHands is awaited
LateZero(frame) == [frame EXCEPT !.late = <<0, 0>>]

Arriving(frame, when) == [frame EXCEPT !.when = when]

\* lines 31-34, 47, 49: the callback up to its first await, the model
\* loaded.  The frame is dropped while isDetecting is set (line 32);
\* otherwise the flag is set and detectHands either returns at once (line
\* 47), onFrame waiting at line 34, or awaits estimateHands (line 49).
onFrame(st, frame) ==
    IF st.isDetecting
    THEN st
    ELSE [st EXCEPT !.isDetecting = TRUE,
                    !.at = IF frame.width = 0 \/ frame.height = 0
                           THEN "resume"
                           ELSE "estimateHands"]

\* lines 51-61: estimateHands has resolved with the frame's hands and the
\* rest of detectHands runs, line 81 reading the size anew.  A TypeError in
\* line 52 rejects detectHands and onFrame with it: no callback is left and
\* isDetecting stays set.
detectHandsResumed(st, frame) ==
    The({The({[st EXCEPT !.history = out.history,
                         !.gesture = out.gesture,
                         !.at = IF out.threw THEN "idle" ELSE "resume"] :
                out \in {detectHandsOutcome(st.history, st.gesture,
                                            Len(frame.hands), r)}}) :
            r \in {Recognized[frame.hands, frame.late]}})

\* line 35: detectHands has fulfilled and onFrame clears the flag
onFrameResumed(st) == [st EXCEPT !.isDetecting = FALSE, !.at = "idle"]

\* the component after a step of the callback of frame k
Entry(k, step, st) ==
    [frame |-> k, step |-> step, history |-> st.history, gesture |-> st.gesture,
     isDetecting |-> st.isDetecting]

\* a run is the component (st), the frame whose callback is in flight
\* (cur) and the component after each step taken so far (trace)
Mounted == [st |-> StartState, cur |-> 0, trace |-> <<>>]

\* estimateHands resolves for the callback in flight, if it awaits that
Resolve(run, frames) ==
    IF run.st.at # "estimateHands"
    THEN run
    ELSE The({[st |-> after, cur |-> run.cur,
               trace |-> Append(run.trace,
                                Entry(run.cur,
                                      IF after.at = "resume" THEN "resolved" ELSE "threw",
                                      after))] :
                after \in {detectHandsResumed(run.st, frames[run.cur])}})

\* the callback in flight reaches line 35, if detectHands has fulfilled
Resume(run) ==
    IF run.st.at # "resume"
    THEN run
    ELSE The({[st |-> after, cur |-> run.cur,
               trace |-> Append(run.trace, Entry(run.cur, "resumed", after))] :
                after \in {onFrameResumed(run.st)}})

\* the camera delivers frame k
Deliver(run, frames, k) ==
    The({[st |-> after,
          cur |-> IF run.st.isDetecting THEN run.cur ELSE k,
          trace |-> Append(run.trace,
                           Entry(k, IF run.st.isDetecting THEN "dropped" ELSE "started",
                                 after))] :
            after \in {onFrame(run.st, frames[k])}})

\* the run from the mount up to the delivery of frame k: the callback in
\* flight has taken the steps that frame k's arrival lets it take
RECURSIVE Run(_, _)
Run(frames, k) ==
    IF k = 0
    THEN Mounted
    ELSE The({The({The({Deliver(ready, frames, k) :
                        ready \in {IF frames[k].when = "idle"
                                   THEN Resume(resolved)
                                   ELSE resolved}}) :
                    resolved \in {IF frames[k].when = "awaiting"
                                  THEN earlier
                                  ELSE Resolve(earlier, frames)}}) :
                earlier \in {Run(frames, k - 1)}})

\* the component after each step of a run that starts at the mount and
\* ends with no callback in flight
RunTrace(frames) ==
    The({The({Resume(resolved).trace : resolved \in {Resolve(last, frames)}}) :
            last \in {Run(frames, Len(frames))}})

\* the component after the last step of the callback of frame k
Ended(trace, k) ==
    trace[CHOOSE i \in 1..Len(trace) :
            /\ trace[i].frame = k
            /\ \A j \in (i + 1)..Len(trace) : trace[j].frame # k]

\* what the page shows of the component
Shown(st) == [history |-> st.history, gesture |-> st.gesture]

RunFrames == {ZeroHandFrame, OpenHandFrame, TwoFistFrame}

\* frames that are dropped, refused, misread or rejected as well
MixedFrames ==
    RunFrames \cup {ShortHandFrame, NotReadyFrame, LateZero(OpenHandFrame),
                    Arriving(TwoFistFrame, "awaiting"),
                    Arriving(ZeroHandFrame, "resuming")}

RunCalls ==
    {[f |-> "run", frames |-> q] :
        q \in SeqsUpTo(RunFrames, MaxRun) \cup SeqsUpTo(MixedFrames, MaxMixed)}

PrefixFrames == {OpenHandFrame, TwoFistFrame, ShortHandFrame}

\* two runs that differ before a zero-hand frame and agree from it onward,
\* the zero-hand frame followed by open hands, each of these frames
\* delivered after the callback before it has ended
TwoRunCalls ==
    {[f |-> "twoRuns", prefixA |-> a, prefixB |-> b, suffix |-> <<ZeroHandFrame>> \o q] :
        a \in SeqsUpTo(PrefixFrames, MaxPrefix),
        b \in SeqsUpTo(PrefixFrames, MaxPrefix),
        q \in SeqsUpTo({OpenHandFrame}, MaxPrefix)}

\* hands whose fingers all have one shape, or the thumb another
PositionHands ==
    {MakeHand(<<t, s, s, s, s>>) : t \in Shapes, s \in Shapes}
        \cup {MakeHand(<<"bent", "slanted", "slanted", "bent", "bent">>),
              MakeHand(<<"bent", "slanted", "bent", "bent", "bent">>),
              MakeHand(<<"straight", "slanted", "bent", "bent", "bent">>)}
        \cup ShortHands

PositionCalls ==
    {[f |-> "detectHandsByPosition", gesture |-> g, hands |-> hs,
      width |-> size[1], height |-> size[2]] :
        g \in {"", "Fist"},
        hs \in {<<>>} \cup {<<h>> : h \in PositionHands}
                \cup {<<h, ShortHand>> : h \in PositionHands},
        size \in FrameSizes}

Calls == FingerStatesCalls \cup IdentifyCalls \cup TwoHandCalls \cup RecognizeCalls
            \cup VoteCalls \cup RunCalls \cup TwoRunCalls \cup PositionCalls

InitCall ==
    /\ model = FALSE
    /\ camera = FALSE
    /\ detectedGesture = ""
    /\ gestureHistory = <<>>
    /\ isDetecting = FALSE
    /\ inFlight = <<>>
    /\ rejected = FALSE
    /\ lastOp = NoOp("init")
    /\ prevHistory = <<>>
    /\ window = <<>>
    /\ fn = "input"
    /\ arg \in Calls
    /\ res = [throws |-> FALSE]

Returns(label) == [throws |-> FALSE, label |-> label]

CallGetFingerStates ==
    /\ fn = "input"
    /\ arg.f = "getFingerStates"
    /\ res' = getFingerStates(arg.landmarks, arg.width, arg.height)
    /\ fn' = "done"
    /\ UNCHANGED arg
    /\ UNCHANGED progVars

CallIdentifyHandGesture ==
    /\ fn = "input"
    /\ arg.f = "identifyHandGesture"
    /\ res' = Returns(identifyHandGesture(arg.fingers))
    /\ fn' = "done"
    /\ UNCHANGED arg
    /\ UNCHANGED progVars

CallRecognizeTwoHandGestures ==
    /\ fn = "input"
    /\ arg.f = "recognizeTwoHandGestures"
    /\ res' = Returns(recognizeTwoHandGestures(arg.gestures))
    /\ fn' = "done"
    /\ UNCHANGED arg
    /\ UNCHANGED progVars

CallRecognizeGesture ==
    /\ fn = "input"
    /\ arg.f = "recognizeGesture"
    /\ res' = recognizeGesture(arg.hands, arg.width, arg.height)
    /\ fn' = "done"
    /\ UNCHANGED arg
    /\ UNCHANGED progVars

CallGetMostFrequentGesture ==
    /\ fn = "input"
    /\ arg.f = "getMostFrequentGesture"
    /\ res' = Returns(getMostFrequentGesture(arg.history))
    /\ fn' = "done"
    /\ UNCHANGED arg
    /\ UNCHANGED progVars

CallRun ==
    /\ fn = "input"
    /\ arg.f = "run"
    /\ res' = [throws |-> FALSE, trace |-> RunTrace(arg.frames)]
    /\ fn' = "done"
    /\ UNCHANGED arg
    /\ UNCHANGED progVars

\* each run from its mount: the component after the callback of each frame
\* from the zero-hand frame onward
CallTwoRuns ==
    /\ fn = "input"
    /\ arg.f = "twoRuns"
    /\ \E a \in {RunTrace(arg.prefixA \o arg.suffix)},
          b \in {RunTrace(arg.prefixB \o arg.suffix)} :
            res' = [throws |-> FALSE,
                    a |-> [i \in 1..Len(arg.suffix) |-> Ended(a, Len(arg.prefixA) + i)],
                    b |-> [i \in 1..Len(arg.suffix) |-> Ended(b, Len(arg.prefixB) + i)]]
    /\ fn' = "done"
    /\ UNCHANGED arg
    /\ UNCHANGED progVars

CallDetectHandsByPosition ==
    /\ fn = "input"
    /\ arg.f = "detectHandsByPosition"
    /\ res' = [throws |-> FALSE]
                @@ detectHandsByPosition(arg.gesture, arg.hands, arg.width, arg.height)
    /\ fn' = "done"
    /\ UNCHANGED arg
    /\ UNCHANGED progVars

NextCall ==
    \/ CallGetFingerStates
    \/ CallIdentifyHandGesture
    \/ CallRecognizeTwoHandGestures
    \/ CallRecognizeGesture
    \/ CallGetMostFrequentGesture
    \/ CallRun
    \/ CallTwoRuns
    \/ CallDetectHandsByPosition

SpecCall == InitCall /\ [][NextCall]_vars

Done(f) == fn = "done" /\ arg.f = f

-----------------------------------------------------------------------------
(* Claims *)

Copies(label) == [i \in 1..GESTURE_HISTORY_LENGTH |-> label]

FrameProcessed == lastOp.op = "frame"

\* C1: in every reachable state gestureHistory holds at most
\* GESTURE_HISTORY_LENGTH = 5 labels.
C1_HistoryBounded == Len(gestureHistory) <= GESTURE_HISTORY_LENGTH

\* a frame with a hand was processed on a full history, which stayed full
C1_Witness ==
    /\ FrameProcessed
    /\ lastOp.hands > 0
    /\ ~lastOp.threw
    /\ Len(prevHistory) = GESTURE_HISTORY_LENGTH
    /\ Len(gestureHistory) = GESTURE_HISTORY_LENGTH

\* C2: a processed frame with zero hands leaves gestureHistory empty and
\* detectedGesture "No hand detected", whatever the history was before.
C2_ZeroHandsReset ==
    (FrameProcessed /\ lastOp.hands = 0) =>
        (gestureHistory = <<>> /\ detectedGesture = NoHand)

\* a zero-hand frame was processed on a history of five copies of "More"
C2_Witness ==
    /\ FrameProcessed
    /\ lastOp.hands = 0
    /\ prevHistory = Copies(More)
    /\ gestureHistory = <<>>
    /\ detectedGesture = NoHand

\* C3: once the last five processed hand-bearing frames, with no zero-hand
\* frame between them, all had the label L, gestureHistory is five copies of
\* L and detectedGesture is L.
C3_FiveFramesDecide ==
    \A L \in Vocabulary :
        window = Copies(L) => (gestureHistory = Copies(L) /\ detectedGesture = L)

\* the fifth "More" frame in a row was processed and evicted an "Open Hand"
C3_Witness ==
    /\ FrameProcessed
    /\ lastOp.label = More
    /\ window = Copies(More)
    /\ Len(prevHistory) = GESTURE_HISTORY_LENGTH
    /\ prevHistory[1] = OpenHand
    /\ detectedGesture = More

Occurrences(history, g) == Cardinality({i \in 1..Len(history) : history[i] = g})

FirstOccurrence(history, g) ==
    CHOOSE i \in 1..Len(history) :
        history[i] = g /\ \A j \in 1..(i - 1) : history[j] # g

\* C4: on a non-empty history getMostFrequentGesture returns a label of
\* maximal count, the one occurring first among those of maximal count; on
\* [Fist, Open Hand, Fist, Open Hand, Unknown] it returns the Fist label.
C4_MajorityEarliestTie ==
    (Done("getMostFrequentGesture") /\ arg.history # <<>>) =>
        /\ ~res.throws
        /\ \E i \in 1..Len(arg.history) : arg.history[i] = res.label
        /\ \A i \in 1..Len(arg.history) :
              LET g == arg.history[i]
              IN  \/ Occurrences(arg.history, g) < Occurrences(arg.history, res.label)
                  \/ /\ Occurrences(arg.history, g) = Occurrences(arg.history, res.label)
                     /\ FirstOccurrence(arg.history, res.label)
                            <= FirstOccurrence(arg.history, g)
        /\ (arg.history = TieHistory => res.label = Fist)

\* the vote was taken on the history of the example
C4_Witness ==
    /\ Done("getMostFrequentGesture")
    /\ arg.history = TieHistory
    /\ res.label = Fist

HasShortHand(hands) == \E i \in 1..Len(hands) : Len(hands[i]) < LANDMARKS

\* C5: a hand of fewer than 21 landmarks never makes getFingerStates or
\* recognizeGesture raise, and a frame made of such a hand is labelled
\* "Unknown".
C5_ShortHandIsUnknown ==
    /\ (Done("getFingerStates") /\ Len(arg.landmarks) < LANDMARKS) => ~res.throws
    /\ (Done("recognizeGesture") /\ HasShortHand(arg.hands)) => ~res.throws
    /\ (Done("recognizeGesture") /\ Len(arg.hands) = 1 /\ HasShortHand(arg.hands)) =>
            (~res.throws /\ res.label = Unknown)

OnFrameOps == {"start", "notReady", "busy"}

\* C6: at most one detectHands is in flight, and an onFrame callback that
\* fires while one is in flight starts none and changes neither
\* gestureHistory nor detectedGesture.
C6_NoReentry ==
    /\ [](Len(inFlight) <= 1)
    /\ [][(Len(inFlight) > 0 /\ lastOp'.op \in OnFrameOps) =>
            /\ inFlight' = inFlight
            /\ gestureHistory' = gestureHistory
            /\ detectedGesture' = detectedGesture]_vars

\* onFrame fired while a detection was awaiting estimateHands
C6_Witness ==
    /\ lastOp.op = "busy"
    /\ isDetecting
    /\ Len(inFlight) = 1
    /\ inFlight[1].at = "estimateHands"

Extended(fingers) ==
    {name \in {"thumb", "index", "middle", "ring", "pinky"} : fingers[name]}

\* the rule table of the claim, by the set of extended fingers
RuleTable(fingers) ==
    LET e == Extended(fingers)
    IN  CASE e = {"thumb", "index", "middle", "ring", "pinky"} -> OpenHand
          [] e = {"thumb"} -> ThumbsUp
          [] e = {"index"} -> NoIndex
          [] e = {} -> Fist
          [] e = {"index", "middle"} -> Peace
          [] e = {"thumb", "index", "middle"} -> Peace
          [] OTHER -> Unknown

\* C7: for each of the 32 finger-state vectors identifyHandGesture returns
\* the label of the rule table; all extended is "Open Hand", all flexed is
\* the Fist label.
C7_RuleTable ==
    Done("identifyHandGesture") =>
        /\ ~res.throws
        /\ res.label = RuleTable(arg.fingers)
        /\ (arg.fingers = OpenVector => res.label = OpenHand)
        /\ (arg.fingers = FistVector => res.label = Fist)

\* index and middle extended with the thumb was classified as the peace sign
C7_Witness ==
    /\ Done("identifyHandGesture")
    /\ arg.fingers = Fingers(TRUE, TRUE, TRUE, FALSE, FALSE)
    /\ res.label = Peace

\* C8: recognizeTwoHandGestures([A, B]) equals recognizeTwoHandGestures([B, A])
\* for every pair of single-hand labels.
C8_TwoHandSymmetric ==
    Done("recognizeTwoHandGestures") =>
        res.label = recognizeTwoHandGestures(<<arg.gestures[2], arg.gestures[1]>>)

\* a pair of different labels, the first of them matched by a rule
C8_Witness ==
    /\ Done("recognizeTwoHandGestures")
    /\ arg.gestures = <<OpenHand, Fist>>
    /\ res.label = UnknownTwoHand

\* the composite label the claim gives a pair of finger-state vectors
PairLabel(v1, v2) ==
    IF v1 = OpenVector /\ v2 = OpenVector THEN AllDone
    ELSE IF v1 = FistVector /\ v2 = FistVector THEN More
    ELSE IF v1 = ThumbVector /\ v2 = ThumbVector THEN Help
    ELSE UnknownTwoHand

\* C9: a frame of exactly two hands is labelled "All Done" when both are open
\* hands, "More" when both are fists, "Help" when both are thumbs up, and
\* "Unknown Two-Hand Gesture" for every other pair of finger-state vectors.
C9_TwoHandFrameLabel ==
    (Done("recognizeGesture") /\ Len(arg.vectors) = 2) =>
        /\ ~res.throws
        /\ res.label = PairLabel(arg.vectors[1], arg.vectors[2])

\* a frame of two fists was labelled "More"
C9_Witness ==
    /\ Done("recognizeGesture")
    /\ arg.vectors = <<FistVector, FistVector>>
    /\ Len(arg.hands) = 2
    /\ res.label = More

\* C10: after each frame delivered to onFrame and taken up by detectHands,
\* whatever its hands and its size, detectedGesture is a label of the closed
\* vocabulary and no exception of the classification has been propagated.
C10_AlwaysALabel ==
    (lastOp.op \in {"frame", "notReady"}) =>
        (detectedGesture \in Vocabulary /\ ~lastOp.threw)

\* C14: gestureHistory is, in arrival order, the labels of the newest
\* min(5, k) of the k hand-bearing frames processed since the last zero-hand
\* frame (or the start), and a frame processed on a full history evicts the
\* oldest label.
C14_FifoWindow ==
    /\ gestureHistory = window
    /\ (FrameProcessed /\ lastOp.hands > 0 /\ ~lastOp.threw
            /\ Len(prevHistory) = GESTURE_HISTORY_LENGTH) =>
          gestureHistory = Append(Tail(prevHistory), lastOp.label)

\* a frame was processed on a full history whose oldest label differed from
\* its second, and the second is now the oldest
C14_Witness ==
    /\ FrameProcessed
    /\ lastOp.hands > 0
    /\ ~lastOp.threw
    /\ Len(prevHistory) = GESTURE_HISTORY_LENGTH
    /\ prevHistory[1] = OpenHand
    /\ prevHistory[2] = More
    /\ gestureHistory[1] = More
    /\ gestureHistory[GESTURE_HISTORY_LENGTH] = lastOp.label

ZeroSize(size) == Len(size) = 2 /\ (size[1] = 0 \/ size[2] = 0)

\* C15: a step of detectHands that reads a zero width or height of the
\* video is the refusal of line 47: it classifies nothing, divides nothing,
\* leaves gestureHistory as it was and propagates no failure.
C15_ZeroSizeRefused ==
    ZeroSize(lastOp.size) =>
        /\ lastOp.op = "notReady"
        /\ lastOp.label = ""
        /\ ~lastOp.threw

\* the refusal of line 47 itself: a callback that reads a zero width or
\* height there starts no estimateHands call and changes neither
\* gestureHistory nor detectedGesture
ZeroSizeRefusedAtStart ==
    [][(lastOp'.op \in OnFrameOps /\ ZeroSize(lastOp'.size)) =>
            /\ gestureHistory' = gestureHistory
            /\ detectedGesture' = detectedGesture
            /\ rejected' = rejected
            /\ Len(inFlight') = Len(inFlight) + 1
            /\ inFlight'[Len(inFlight')].at = "resume"]_vars

\* C18: the busy flag is released after every outcome of detectHands: when
\* no detection is in flight, isDetecting is false.
C18_FlagReleased == (inFlight = <<>>) => ~isDetecting

LastThree(w) == SubSeq(w, Len(w) - 2, Len(w))

\* C19: once the last three processed hand-bearing frames, with no zero-hand
\* frame between them, all had the label L, detectedGesture is L.
C19_ThreeFramesDecide ==
    \A L \in Vocabulary :
        (Len(window) >= 3 /\ LastThree(window) = <<L, L, L>>) => detectedGesture = L

\* the third "More" frame in a row turned the vote, which the second had
\* left at "Open Hand"
C19_Witness ==
    /\ FrameProcessed
    /\ lastOp.label = More
    /\ prevHistory = <<OpenHand, OpenHand, OpenHand, More, More>>
    /\ getMostFrequentGesture(prevHistory) = OpenHand
    /\ window = <<OpenHand, OpenHand, More, More, More>>
    /\ detectedGesture = More

\* two frames of a label do not always decide: the second "More" frame in a
\* row was processed and "Open Hand" is still displayed
C19_TwoNotEnough ==
    /\ FrameProcessed
    /\ lastOp.label = More
    /\ window = <<OpenHand, OpenHand, OpenHand, More, More>>
    /\ detectedGesture = OpenHand

\* C20: with a non-empty gestureHistory detectedGesture is one of its labels;
\* with an empty one it is the initial "" or "No hand detected".
C20_DisplayedFromHistory ==
    /\ gestureHistory # <<>> =>
          \E i \in 1..Len(gestureHistory) : gestureHistory[i] = detectedGesture
    /\ gestureHistory = <<>> => detectedGesture \in {"", NoHand}

\* a frame was processed and the displayed label is an older one of the
\* history, not the frame's own
C20_Witness ==
    /\ FrameProcessed
    /\ lastOp.label = More
    /\ Len(gestureHistory) = GESTURE_HISTORY_LENGTH
    /\ gestureHistory[1] = OpenHand
    /\ detectedGesture = OpenHand

\* the single-hand labels of a frame's finger-state vectors
VectorLabels(vectors) == [i \in 1..Len(vectors) |-> identifyHandGesture(vectors[i])]

\* C13: recognizeGesture composes exactly when the frame has two hands: one
\* hand gives that hand's single-hand label, three hands give the first
\* hand's single-hand label, and neither raises.
C13_ComposeOnlyPairs ==
    (Done("recognizeGesture") /\ Len(arg.vectors) > 0) =>
        /\ ~res.throws
        /\ Len(arg.vectors) = 2 =>
              /\ res.label = recognizeTwoHandGestures(VectorLabels(arg.vectors))
              /\ res.label \in {AllDone, More, Help, UnknownTwoHand}
        /\ Len(arg.vectors) # 2 =>
              /\ res.label = VectorLabels(arg.vectors)[1]
              /\ res.label \in SingleHandLabels

\* three hands, the first two of them fists: the frame is labelled as the
\* first hand, not "More"
C13_Witness ==
    /\ Done("recognizeGesture")
    /\ arg.vectors = <<FistVector, FistVector, OpenVector>>
    /\ Len(arg.hands) = 3
    /\ ~res.throws
    /\ res.label = Fist

FingerNames == <<"thumb", "index", "middle", "ring", "pinky">>

\* C16: a finger one of whose joint vectors has zero magnitude is reported as
\* not extended without an exception, and the other fingers of the hand are
\* evaluated as usual (a straight finger extended, a bent one not).
C16_ZeroMagnitudeNotExtended ==
    (Done("getFingerStates") /\ Len(arg.shapes) = Len(FingerNames)) =>
        /\ ~res.throws
        /\ \A k \in 1..Len(FingerNames) :
              /\ arg.shapes[k] \in DegenerateShapes => ~res.fingers[FingerNames[k]]
              /\ (arg.shapes[k] = "straight" /\ arg.width > 0 /\ arg.height > 0) =>
                    res.fingers[FingerNames[k]]
              /\ arg.shapes[k] = "bent" => ~res.fingers[FingerNames[k]]

\* a hand with a coincident index tip and a folded ring finger, its straight
\* thumb and middle finger reported extended
C16_Witness ==
    /\ Done("getFingerStates")
    /\ arg.shapes = <<"straight", "coincident", "straight", "folded", "bent">>
    /\ ~res.throws
    /\ res.fingers = Fingers(TRUE, FALSE, TRUE, FALSE, FALSE)

RuleNumbers == 1..Len(RuleLabels)

Matching(fingers) == {k \in RuleNumbers : RuleMatches(k, fingers)}

PositionMatching(fingers) == {k \in RuleNumbers : PositionRuleMatches(k, fingers)}

\* the orders in which the rules can be evaluated
RuleOrders == {order \in [RuleNumbers -> RuleNumbers] :
                  \A i, j \in RuleNumbers : order[i] = order[j] => i = j}

\* the label of the first rule, in that order, that matches
FirstMatch(order, fingers) ==
    IF Matching(fingers) = {}
    THEN Unknown
    ELSE LET i == CHOOSE i \in RuleNumbers :
                      /\ order[i] \in Matching(fingers)
                      /\ \A j \in 1..(i - 1) : order[j] \notin Matching(fingers)
         IN  RuleLabels[order[i]]

\* C17 as stated: of the 32 finger-state vectors identifyHandGesture can be
\* called with, one satisfies more than one rule, and some order of the
\* rules changes the label of some vector.
C17_RulesOverlap ==
    Done("identifyHandGesture") =>
        /\ \E fs \in FingerStates : Cardinality(Matching(fs)) > 1
        /\ \E fs \in FingerStates, order \in RuleOrders :
                FirstMatch(order, fs) # identifyHandGesture(fs)

\* C17, amended: no finger-state vector satisfies more than one rule, of
\* identifyHandGesture or of the position-based component, and
\* identifyHandGesture returns what the rules give in every order.
C17_RulesExclusive ==
    Done("identifyHandGesture") =>
        /\ Cardinality(Matching(arg.fingers)) <= 1
        /\ Cardinality(PositionMatching(arg.fingers)) <= 1
        /\ \A order \in RuleOrders : FirstMatch(order, arg.fingers) = res.label

\* the peace sign with the thumb out was classified, and only rule 5 matches
C17_Witness ==
    /\ Done("identifyHandGesture")
    /\ arg.fingers = Fingers(TRUE, TRUE, TRUE, FALSE, FALSE)
    /\ Matching(arg.fingers) = {5}
    /\ res.label = Peace

Repeated(x, k) == [i \in 1..k |-> x]

\* the frames of the smoothing-lag scenario: no hand, an open hand five
\* times, two fists
Scenario ==
    <<ZeroHandFrame>> \o Repeated(OpenHandFrame, GESTURE_HISTORY_LENGTH)
        \o <<TwoFistFrame>>

\* C11: in a run of a zero-hand frame, five one-hand Open Hand frames and a
\* frame of two Fist hands, each delivered after the callback before it has
\* ended, the first frame leaves the history empty and shows "No hand
\* detected", the k-th Open Hand frame leaves k copies of "Open Hand" and
\* shows "Open Hand", and the two-fist frame leaves four "Open Hand"
\* followed by the one label "More" and still shows "Open Hand".
C11_SmoothingLag ==
    (Done("run") /\ arg.frames = Scenario) =>
        /\ \A k \in 1..Len(Scenario) : Ended(res.trace, k).step = "resumed"
        /\ Shown(Ended(res.trace, 1)) = [history |-> <<>>, gesture |-> NoHand]
        /\ \A k \in 1..GESTURE_HISTORY_LENGTH :
              Shown(Ended(res.trace, k + 1)) =
                  [history |-> Repeated(OpenHand, k), gesture |-> OpenHand]
        /\ Shown(Ended(res.trace, GESTURE_HISTORY_LENGTH + 2)) =
              [history |-> Append(Repeated(OpenHand, GESTURE_HISTORY_LENGTH - 1), More),
               gesture |-> OpenHand]

\* the scenario was run to its last frame, each callback through its three
\* steps and none of its frames dropped
C11_Witness ==
    /\ Done("run")
    /\ arg.frames = Scenario
    /\ Len(res.trace) = 3 * Len(Scenario)
    /\ res.trace[Len(res.trace)].frame = Len(Scenario)
    /\ res.trace[Len(res.trace)].step = "resumed"
    /\ ~res.trace[Len(res.trace)].isDetecting
    /\ res.trace[Len(res.trace) - 1].isDetecting
    /\ res.trace[Len(res.trace)].history[GESTURE_HISTORY_LENGTH] = More

\* C12: two runs whose frames differ before a zero-hand frame and are the
\* same from it onward have the same gestureHistory and detectedGesture
\* after every frame from the zero-hand frame onward.
C12_NoLeakAcrossReset ==
    Done("twoRuns") =>
        \A i \in 1..Len(arg.suffix) : Shown(res.a[i]) = Shown(res.b[i])

=============================================================================
